---- MODULE Spec2Model ----
(***************************************************************************)
(* The CBWApi client of cbw_api_toolbox (src/cbw_api_toolbox/cbw_api.py):  *)
(* one caller thread invoking the public methods of one CBWApi object      *)
(* against a remote server.  Every call to requests.request is one step;   *)
(* the code of a method between two such calls is part of the step.        *)
(***************************************************************************)
EXTENDS Integers, Sequences, FiniteSets, TLC

(* ------------------------------ bounds --------------------------------- *)
\* page tokens the server hands out in "next" links: 1..NPages
NPages == 2
\* items in the JSON array of one page: 0..MaxItems
MaxItems == 1
\* requests explored within one call (the pager itself has no bound)
MaxRequests == 3
\* consecutive calls made by the caller
MaxCalls == 2

(* ------------------------ program constants ---------------------------- *)
\* cbw_api.py:79,82  params['per_page'] = 100
DefaultPerPage == 100

(* --------------------------- python values ----------------------------- *)
\* None passed as an identifier argument
PyNone == "<None>"
\* identifier arguments: absent, empty, present
Ids == {PyNone, "", "7"}

\* A body mapping (info / params of the non-paginated methods): None, or a
\* dict with the given keys (all values truthy).
NoInfo == [none |-> TRUE, keys |-> {}]
Dict(ks) == [none |-> FALSE, keys |-> ks]
RemoteAccessKeys == {"type", "address", "port", "login", "node_id"}
Infos == {NoInfo, Dict({}), Dict({"credential_id"}), Dict({"address"}),
          Dict(RemoteAccessKeys)}
\* python truthiness of a mapping argument: None and {} are falsy
Truthy(info) == ~info.none /\ info.keys # {}
\* python truthiness of an identifier argument: None and "" are falsy
TruthyId(i) == i # PyNone /\ i # ""

\* The query-parameter dict of the paginated methods; 0 stands for an
\* absent key.
NoKey == 0
ParamsDict(page, per_page) == [page |-> page, per_page |-> per_page]
EmptyDict == ParamsDict(NoKey, NoKey)
CallerPerPage == 50
\* the `params` argument of a paginated method: None or a dict
NoneArg == [none |-> TRUE, dict |-> EmptyDict]
DictArg(d) == [none |-> FALSE, dict |-> d]

(* ------------------------------ responses ------------------------------ *)
\* response.text: a JSON array (items in order), a JSON object (items are
\* its field values in order), malformed JSON, or the empty string.
Item(t, k) == 10 * t + k
Array(t, n) == [kind |-> "array", items |-> [k \in 1..n |-> Item(t, k)]]
Object(t) == [kind |-> "object", items |-> <<900 + t>>]
Malformed == [kind |-> "malformed", items |-> <<>>]
EmptyText == [kind |-> "empty", items |-> <<>>]

\* A requests.Response: status_code, text, and links (the page token in
\* the query string of the "next" relation's url, NoKey when the Link
\* header has no "next" relation).
Response(s, text, nxt) ==
    [isNone |-> FALSE, status_code |-> s, text |-> text, links |-> [next |-> nxt]]
\* the value bound to `response` when _request returned None
NoneResponse ==
    [isNone |-> TRUE, status_code |-> 0, text |-> EmptyText, links |-> [next |-> NoKey]]

Tokens == 1..NPages
PageStatuses == {200, 422}
Statuses == {200, 201, 204, 299, 300, 422}
\* what the server may answer to a request for page t of a collection:
\* 200 with a JSON array (or text that is no JSON), or an error status
\* with a JSON object describing the error (or text that is no JSON)
PageResponses(t) ==
    {Response(200, b, n) : b \in {Array(t, k) : k \in 0..MaxItems} \cup {Malformed},
                           n \in {NoKey} \cup Tokens}
    \cup {Response(s, b, n) : s \in PageStatuses \ {200}, b \in {Object(t), Malformed},
                              n \in {NoKey} \cup Tokens}
\* what the server may answer to a request of a non-paginated method
ItemResponses ==
    {Response(s, b, NoKey) : s \in Statuses, b \in {Object(0), Malformed, EmptyText}}

(* ------------------------------- results ------------------------------- *)
\* What a method returned: nothing (yet), None, False, True, a list, a
\* cbw_object namedtuple (items are its values), or the raw Response.
Result(tag, items) == [tag |-> tag, items |-> items]
NoResult == Result("NoResult", <<>>)
RNone == Result("None", <<>>)
RFalse == Result("False", <<>>)
RTrue == Result("True", <<>>)
RList(items) == Result("list", items)
RRecord(items) == Result("record", items)
RResponse(r) == Result("response", <<r.status_code>>)

(* ------------------------------- routes -------------------------------- *)
ROUTE_AGENTS == "/api/v3/agents"
ROUTE_COMPLIANCE_ASSETS == "/api/v3/compliance/servers"
ROUTE_COMPLIANCE_RULES == "/api/v3/compliance/rules"
ROUTE_CVE_ANNOUNCEMENTS == "/api/v3/cve_announcements"
ROUTE_GROUPS == "/api/v3/groups"
ROUTE_HOSTS == "/api/v3/hosts"
\* imported by cbw_api.py:20; the route of the docstrings of cbw_api.py:489-507
ROUTE_IMPORTER == "/api/v2/cbw_scans/scripts"
ROUTE_NODES == "/api/v3/nodes"
ROUTE_PING == "/api/v3/ping"
ROUTE_REMOTE_ACCESSES == "/api/v3/remote_accesses"
ROUTE_SECURITY_ISSUES == "/api/v3/security_issues"
ROUTE_SERVERS == "/api/v3/servers"
ROUTE_USERS == "/api/v3/users"

(* --------------------------- public methods ---------------------------- *)
\* One row per public method of CBWApi.  path is the list handed to
\* _request with "<id>" / "<id2>" standing for the identifier arguments;
\* body says whether a body mapping is handed to _request; expect is the
\* status code the method compares with (0: none); shape is the form of
\* the method's code:
\*   "pages"   return self._get_pages(verb, path, params)
\*   "expect"  if status_code != expect: return None; return parse
\*   "upload"  if status_code != 204: return None; return response
\*   "verif"   if id: request; return verif_response(response); return False
\*   "ping"    status_code == 200 -> True, else False
\*   "update_remote_access", "create_remote_access": their own code
Method(name, shape, verb, path, body, expect) ==
    [name |-> name, shape |-> shape, verb |-> verb, path |-> path,
     body |-> body, expect |-> expect]
Pages(name, route) == Method(name, "pages", "GET", <<route>>, TRUE, 200)
Expect(name, verb, path, body, code) == Method(name, "expect", verb, path, body, code)
Verif(name, verb, route, body) == Method(name, "verif", verb, <<route, "<id>">>, body, 0)

ServerMethods ==
    { Method("ping", "ping", "GET", <<ROUTE_PING>>, FALSE, 200),
      Pages("servers", ROUTE_SERVERS),
      Expect("server", "GET", <<ROUTE_SERVERS, "<id>">>, FALSE, 200),
      Expect("server_refresh", "PUT", <<ROUTE_SERVERS, "<id>", "refresh">>, FALSE, 200),
      Verif("update_server", "PATCH", ROUTE_SERVERS, TRUE),
      Expect("server_schedule_updates", "POST", <<ROUTE_SERVERS, "<id>", "updates">>, TRUE, 200),
      Verif("delete_server", "DELETE", ROUTE_SERVERS, FALSE),
      Expect("update_server_cve", "PUT",
             <<ROUTE_SERVERS, "<id>", "cve_announcements", "<id2>">>, TRUE, 200),
      Pages("agents", ROUTE_AGENTS),
      Expect("agent", "GET", <<ROUTE_AGENTS, "<id>">>, FALSE, 200),
      Verif("delete_agent", "DELETE", ROUTE_AGENTS, FALSE) }

RemoteAccessMethods ==
    { Pages("remote_accesses", ROUTE_REMOTE_ACCESSES),
      Method("create_remote_access", "create_remote_access", "POST",
             <<ROUTE_REMOTE_ACCESSES>>, TRUE, 0),
      Expect("remote_access", "GET", <<ROUTE_REMOTE_ACCESSES, "<id>">>, FALSE, 200),
      Verif("delete_remote_access", "DELETE", ROUTE_REMOTE_ACCESSES, FALSE),
      Method("update_remote_access", "update_remote_access", "PATCH",
             <<ROUTE_REMOTE_ACCESSES, "<id>">>, TRUE, 0),
      Expect("test_deploy_remote_access", "PUT",
             <<ROUTE_REMOTE_ACCESSES, "<id>", "test_deploy">>, FALSE, 200) }

CveMethods ==
    { Expect("cve_announcement", "GET", <<ROUTE_CVE_ANNOUNCEMENTS, "<id>">>, FALSE, 200),
      Pages("cve_announcements", ROUTE_CVE_ANNOUNCEMENTS),
      Expect("update_cve_announcement", "PUT", <<ROUTE_CVE_ANNOUNCEMENTS, "<id>">>, TRUE, 200),
      Expect("delete_cve_announcement", "DELETE", <<ROUTE_CVE_ANNOUNCEMENTS, "<id>">>, FALSE, 200) }

GroupMethods ==
    { Pages("groups", ROUTE_GROUPS),
      Expect("group", "GET", <<ROUTE_GROUPS, "<id>">>, FALSE, 200),
      Expect("create_group", "POST", <<ROUTE_GROUPS>>, TRUE, 201),
      Expect("update_group", "PUT", <<ROUTE_GROUPS, "<id>">>, TRUE, 200),
      Expect("delete_group", "DELETE", <<ROUTE_GROUPS, "<id>">>, FALSE, 200) }

UserNodeMethods ==
    { Pages("users", ROUTE_USERS),
      Expect("user", "GET", <<ROUTE_USERS, "<id>">>, FALSE, 200),
      Pages("nodes", ROUTE_NODES),
      Expect("node", "GET", <<ROUTE_NODES, "<id>">>, FALSE, 200),
      Expect("delete_node", "DELETE", <<ROUTE_NODES, "<id>">>, TRUE, 200) }

HostMethods ==
    { Pages("hosts", ROUTE_HOSTS),
      Expect("host", "GET", <<ROUTE_HOSTS, "<id>">>, FALSE, 200),
      Expect("create_host", "POST", <<ROUTE_HOSTS>>, TRUE, 201),
      Expect("update_host", "PUT", <<ROUTE_HOSTS, "<id>">>, TRUE, 200),
      Expect("delete_host", "DELETE", <<ROUTE_HOSTS, "<id>">>, FALSE, 200) }

SecurityIssueMethods ==
    { Pages("security_issues", ROUTE_SECURITY_ISSUES),
      Expect("security_issue", "GET", <<ROUTE_SECURITY_ISSUES, "<id>">>, FALSE, 200),
      Expect("create_security_issue", "POST", <<ROUTE_SECURITY_ISSUES>>, TRUE, 201),
      Expect("update_security_issue", "PUT", <<ROUTE_SECURITY_ISSUES, "<id>">>, TRUE, 200),
      Expect("delete_security_issue", "DELETE", <<ROUTE_SECURITY_ISSUES, "<id>">>, FALSE, 200) }

ImporterMethods ==
    { Expect("fetch_importer_scripts", "GET", <<ROUTE_IMPORTER>>, TRUE, 200),
      Expect("fetch_importer_script", "GET", <<ROUTE_IMPORTER, "<id>">>, FALSE, 200),
      Method("upload_importer_results", "upload", "POST", <<ROUTE_IMPORTER>>, TRUE, 204) }

ComplianceMethods ==
    { Pages("compliance_servers", ROUTE_COMPLIANCE_ASSETS),
      Expect("compliance_server", "GET", <<ROUTE_COMPLIANCE_ASSETS, "<id>">>, FALSE, 200),
      Expect("recheck_rules", "PUT", <<ROUTE_COMPLIANCE_ASSETS, "<id>", "recheck_rules">>, FALSE, 200),
      Pages("compliance_rules", ROUTE_COMPLIANCE_RULES),
      Expect("compliance_rule", "GET", <<ROUTE_COMPLIANCE_RULES, "<id>">>, FALSE, 200),
      Expect("create_compliance_rule", "POST", <<ROUTE_COMPLIANCE_RULES>>, TRUE, 201),
      Verif("update_compliance_rule", "PUT", ROUTE_COMPLIANCE_RULES, TRUE),
      Verif("delete_compliance_rule", "DELETE", ROUTE_COMPLIANCE_RULES, FALSE),
      Expect("recheck_servers", "PUT", <<ROUTE_COMPLIANCE_RULES, "<id>", "recheck_servers">>, FALSE, 200) }

Methods ==
    ServerMethods \cup RemoteAccessMethods \cup CveMethods \cup GroupMethods
    \cup UserNodeMethods \cup HostMethods \cup SecurityIssueMethods
    \cup ImporterMethods \cup ComplianceMethods

OfShape(shape) == {m \in Methods : m.shape = shape}
Range(seq) == {seq[i] : i \in DOMAIN seq}
\* the identifier arguments a method takes
TakesId(m) == "<id>" \in Range(m.path)
TakesId2(m) == "<id2>" \in Range(m.path)
\* the list handed to _request as `payloads`
Payloads(m, id, id2) ==
    [i \in DOMAIN m.path |->
        IF m.path[i] = "<id>" THEN id ELSE IF m.path[i] = "<id2>" THEN id2 ELSE m.path[i]]

(* ------------------------- outcomes of a code path --------------------- *)
\* How a piece of code ends: it returns a value, an exception propagates
\* out of it, or sys.exit ends the process.
Return(v) == [kind |-> "return", value |-> v, exc |-> ""]
Raise(e) == [kind |-> "raise", value |-> NoResult, exc |-> e]
Exit == [kind |-> "exit", value |-> NoResult, exc |-> "SystemExit"]
\* sys.exit(-1): the exit status of the process is the low byte of -1
ExitStatus(code) == code % 256

(* ------------------------------ transport ------------------------------ *)
\* self.api_url: with or without a scheme
ApiUrls == { [scheme |-> "https://", rest |-> "cbw.local"],
             [scheme |-> "", rest |-> "cbw.local"] }
\* The exceptions requests.request raises on a connectivity failure.
\* "requests.ConnectionError" is requests.exceptions.ConnectionError.
ConnectivityErrors == {"ProxyError", "SSLError", "RetryError", "requests.ConnectionError"}
\* The classes of the except clause of _request; its ConnectionError is
\* the builtin one, the module imports no other.
CaughtErrors == {"builtins.ConnectionError", "ProxyError", "SSLError", "NewConnectionError",
                 "RetryError", "InvalidHeader", "MaxRetryError"}
Answer(r) == [kind |-> "response", response |-> r, exc |-> ""]
Failure(e) == [kind |-> "exception", response |-> NoneResponse, exc |-> e]
\* What requests.request(verb, route, ...) does: MissingSchema when the
\* url has no scheme, else one of the server's answers or a connectivity
\* failure.
TransportEvents(url, answers) ==
    IF url.scheme = "" THEN {Failure("MissingSchema")}
    ELSE {Answer(r) : r \in answers} \cup {Failure(e) : e \in ConnectivityErrors}

\* json.dumps(body_params), what is sent as the request's data
NoData == [kind |-> "None", keys |-> {}, page |-> NoKey, per_page |-> NoKey]
DataOfInfo(info) ==
    IF info.none THEN NoData
    ELSE [kind |-> "dict", keys |-> info.keys, page |-> NoKey, per_page |-> NoKey]
DataOfParams(d) ==
    [kind |-> "params", keys |-> {}, page |-> d.page, per_page |-> d.per_page]

\* MissingSchema handled like the connectivity failures
HandleErrorNoExit(e) ==
    IF e \in CaughtErrors \cup {"MissingSchema"} THEN "return" ELSE "raise"

\* _request, cbw_api.py:65-71: what becomes of an exception of
\* requests.request
HandleError(e) ==
    IF e \in CaughtErrors THEN "return"
    ELSE IF e = "MissingSchema" THEN "exit"
    ELSE "raise"

RECURSIVE Join(_)
\* '/'.join(params)
Join(payloads) ==
    IF payloads = <<>> THEN ""
    ELSE IF Len(payloads) = 1 THEN payloads[1]
    ELSE payloads[1] \o "/" \o Join(Tail(payloads))

\* "{0}{1}".format(self.api_url, '/'.join(params)); str.join raises a
\* TypeError on an element that is not a str
_build_route(url, payloads) ==
    IF PyNone \in Range(payloads) THEN Raise("TypeError")
    ELSE Return(url.scheme \o url.rest \o Join(payloads))

\* _request(verb, payloads, body_params) when requests.request behaves as
\* ev.  sent: requests.request was called, with `request`.
_request(url, verb, payloads, data, ev) ==
    LET route == _build_route(url, payloads)
        req == [verb |-> verb, route |-> route.value, data |-> data]
        none == [verb |-> "", route |-> "", data |-> NoData]
    IN  IF route.kind = "raise"
        THEN [kind |-> "raise", exc |-> route.exc, response |-> NoneResponse,
              sent |-> FALSE, request |-> none]
        ELSE IF ev.kind = "response"
        THEN [kind |-> "return", exc |-> "", response |-> ev.response,
              sent |-> TRUE, request |-> req]
        ELSE [kind |-> HandleError(ev.exc),
              exc |-> IF HandleError(ev.exc) = "return" THEN ""
                      ELSE IF HandleError(ev.exc) = "exit" THEN "SystemExit" ELSE ev.exc,
              response |-> NoneResponse, sent |-> TRUE, request |-> req]

(* ------------------------------ normalizer ----------------------------- *)
\* json.loads(response.text, object_hook=namedtuple...): a list for a JSON
\* array, a namedtuple for a JSON object; json.JSONDecodeError, which the
\* `except TypeError` does not catch, for text that is not JSON.
_cbw_parser(response) ==
    IF response.isNone THEN Raise("AttributeError")
    ELSE IF response.text.kind = "array" THEN Return(RList(response.text.items))
    ELSE IF response.text.kind = "object" THEN Return(RRecord(response.text.items))
    ELSE Raise("JSONDecodeError")

\* verif_response(response): 200 <= status_code <= 299
verif_response(response) ==
    IF response.isNone THEN Raise("AttributeError")
    ELSE IF response.status_code >= 200 /\ response.status_code <= 299 THEN Return(RTrue)
    ELSE Return(RFalse)

\* extend written as an insertion at the front
ExtendAtFront(list, value) == value.items \o list

\* response_list.extend(value): the elements of a list, the values of a
\* namedtuple
Extend(list, value) == list \o value.items

(* ------------------- the methods after their request ------------------- *)
\* ping, cbw_api.py:120-124
AfterPing(response) ==
    IF response.isNone THEN Raise("AttributeError")
    ELSE IF response.status_code = 200 THEN Return(RTrue)
    ELSE Return(RFalse)

\* if response.status_code != <expect>: return None
\* return self._cbw_parser(response)
AfterExpect(m, response) ==
    IF response.isNone THEN Raise("AttributeError")
    ELSE IF response.status_code # m.expect THEN Return(RNone)
    ELSE _cbw_parser(response)

\* the acknowledgment read like the answers of the other methods
AfterUploadParsed(response) ==
    IF response.isNone THEN Raise("AttributeError")
    ELSE IF response.status_code # 204 THEN Return(RNone)
    ELSE _cbw_parser(response)

\* upload_importer_results, cbw_api.py:509-513
AfterUpload(response) ==
    IF response.isNone THEN Raise("AttributeError")
    ELSE IF response.status_code # 204 THEN Return(RNone)
    ELSE Return(RResponse(response))

\* return self.verif_response(response)
AfterVerif(response) == verif_response(response)

\* update_remote_access, cbw_api.py:272-273
AfterUpdateRemoteAccess(response) ==
    IF response.isNone THEN Raise("AttributeError")
    ELSE _cbw_parser(response)

\* create_remote_access, cbw_api.py:238-245
AfterCreateRemoteAccess(info, response) ==
    IF response.isNone THEN Raise("AttributeError")
    ELSE IF verif_response(response) = Return(RTrue)
    THEN IF "address" \in info.keys THEN _cbw_parser(response) ELSE Raise("KeyError")
    ELSE Return(RFalse)

\* create_remote_access, cbw_api.py:223-236: what the method does before
\* its request.  kind "request": it goes on to _request with `data`.
BuiltKeys == {"type", "address", "port", "login", "password", "key", "node_id", "server_groups"}
Proceed(data) == [kind |-> "request", value |-> NoResult, exc |-> "", data |-> data]
Stop(out) == [kind |-> out.kind, value |-> out.value, exc |-> out.exc, data |-> NoData]
BeforeCreateRemoteAccess(info) ==
    IF Truthy(info)
    THEN IF "credential_id" \in info.keys THEN Proceed(DataOfInfo(info))
         ELSE IF RemoteAccessKeys \subseteq info.keys
         THEN Proceed([kind |-> "dict", keys |-> BuiltKeys, page |-> NoKey, per_page |-> NoKey])
         ELSE Stop(Raise("KeyError"))
    ELSE Stop(Raise("UnboundLocalError"))

\* the guarded methods: `if <id>:` ... else: return False
BeforeVerif(id, info) ==
    IF TruthyId(id) THEN Proceed(DataOfInfo(info)) ELSE Stop(Return(RFalse))

\* update_remote_access, cbw_api.py:270-276
BeforeUpdateRemoteAccess(id, info) ==
    IF TruthyId(id) /\ Truthy(info) THEN Proceed(DataOfInfo(info)) ELSE Stop(Return(RFalse))

(* -------------------------------- pager -------------------------------- *)
\* The dicts a caller hands to a paginated method.
CallerDicts == {ParamsDict(p, pp) : p \in {NoKey} \cup Tokens, pp \in {NoKey, CallerPerPage}}

\* the default written over the caller's 'per_page'
DefaultParamsOverwritten(arg) ==
    IF arg.none THEN ParamsDict(NoKey, DefaultPerPage)
    ELSE [arg.dict EXCEPT !.per_page = DefaultPerPage]

\* _get_pages, cbw_api.py:77-82: the dict bound to `params` afterwards
DefaultParams(arg) ==
    IF arg.none THEN ParamsDict(NoKey, DefaultPerPage)
    ELSE IF arg.dict.per_page = NoKey THEN [arg.dict EXCEPT !.per_page = DefaultPerPage]
    ELSE arg.dict

\* the test of 'page' left out
EntryPointAlwaysFirst(d) == "first"

\* _get_pages, cbw_api.py:84: `if 'page' in params`, the request it leads to
EntryPoint(d) == IF d.page # NoKey THEN "page" ELSE "first"

\* _get_pages, cbw_api.py:85-89: the explicit page
AfterPage(response) ==
    IF response.isNone THEN Raise("AttributeError")
    ELSE IF response.status_code # 200 THEN Return(RNone)
    ELSE _cbw_parser(response)

\* the page after the token's number asked for instead of the token
ContinueOffByOne(list, page) ==
    [kind |-> "continue", value |-> RList(list), exc |-> "", page |-> 1 + (page % NPages)]
Continue(list, page) == [kind |-> "continue", value |-> RList(list), exc |-> "", page |-> page]
Leave(out) == [kind |-> out.kind, value |-> out.value, exc |-> out.exc, page |-> NoKey]

\* the while loop left out: the first page is what is returned
ExtendAndStop(list, response) ==
    LET parsed == _cbw_parser(response)
    IN  IF parsed.kind = "raise" THEN Leave(parsed)
        ELSE Leave(Return(RList(Extend(list, parsed.value))))

\* _get_pages: response_list.extend(self._cbw_parser(response)), then the
\* test of the while loop (cbw_api.py:97-101 and 103-104)
ExtendAndLoop(list, response) ==
    LET parsed == _cbw_parser(response)
    IN  IF parsed.kind = "raise" THEN Leave(parsed)
        ELSE IF response.links.next # NoKey
        THEN Continue(Extend(list, parsed.value), response.links.next)
        ELSE Leave(Return(RList(Extend(list, parsed.value))))

\* _get_pages, cbw_api.py:91-101: after the first request
AfterFirst(response) ==
    IF response.isNone THEN Leave(Raise("AttributeError"))
    ELSE IF response.status_code # 200 THEN Leave(Return(RNone))
    ELSE ExtendAndLoop(<<>>, response)

\* _get_pages, cbw_api.py:102-104: after a request of the while loop
AfterNext(list, response) == ExtendAndLoop(list, response)

(* -------------------------------- state -------------------------------- *)
VARIABLES
    api_url,        \* self.api_url
    callerMap,      \* the caller's own query-parameter dict
    ncalls,         \* calls made so far
    pc,             \* "idle", "request", "page", "first", "next", "done", "raised", "exited"
    call,           \* the method being called and its arguments
    params,         \* _get_pages: the dict bound to `params`
    response,       \* the value bound to `response`
    response_list,  \* _get_pages: response_list
    result,         \* what the call returned
    exc,            \* the exception that left the call
    exit_status,    \* exit status of the process once sys.exit ran
    requests,       \* the calls of requests.request made by this call, in order
    pages,          \* the server: the page it serves for each page token
    fault           \* the exception requests.request raised in this call

vars == <<api_url, callerMap, ncalls, pc, call, params, response, response_list,
          result, exc, exit_status, requests, pages, fault>>

NoMethod == Method("", "", "", <<>>, FALSE, 0)
Call(m, id, id2, info, arg) ==
    [m |-> m, id |-> id, id2 |-> id2, info |-> info, arg |-> arg]
NoCall == Call(NoMethod, "", "", NoInfo, NoneArg)
NoPages == [t \in Tokens |-> NoneResponse]

Init ==
    /\ api_url \in ApiUrls
    /\ callerMap = EmptyDict
    /\ ncalls = 0
    /\ pc = "idle"
    /\ call = NoCall
    /\ params = EmptyDict
    /\ response = NoneResponse
    /\ response_list = <<>>
    /\ result = NoResult
    /\ exc = ""
    /\ exit_status = 0
    /\ requests = <<>>
    /\ pages = NoPages
    /\ fault = ""

\* the caller is between two calls
CanCall == pc = "idle" /\ ncalls < MaxCalls

\* a call begins: nothing is left of the previous one
Enter(c) ==
    /\ call' = c
    /\ ncalls' = ncalls + 1
    /\ response' = NoneResponse
    /\ response_list' = <<>>
    /\ requests' = <<>>
    /\ pages' = NoPages
    /\ fault' = ""
    /\ UNCHANGED api_url

\* a code path ends
Finish(out) ==
    /\ pc' = IF out.kind = "return" THEN "done"
             ELSE IF out.kind = "raise" THEN "raised" ELSE "exited"
    /\ result' = out.value
    /\ exc' = out.exc
    /\ exit_status' = IF out.kind = "exit" THEN ExitStatus(-1) ELSE exit_status

\* the code before the request of a method: it goes on to the request or ends
Begin(before) ==
    IF before.kind = "request"
    THEN pc' = "request" /\ result' = NoResult /\ exc' = "" /\ UNCHANGED exit_status
    ELSE Finish(before)

\* one call of self._request: what it leaves behind
Transport(q, ev) ==
    /\ requests' = IF q.sent THEN Append(requests, q.request) ELSE requests
    /\ response' = IF q.kind = "return" THEN q.response ELSE response
    /\ fault' = IF q.sent /\ ev.kind = "exception" THEN ev.exc ELSE fault

\* _request did not return: its exception or exit is the call's
Escaped(q) == [kind |-> q.kind, value |-> NoResult, exc |-> q.exc]

(* ------------------------------ the calls ------------------------------ *)
\* a method that sends its request unconditionally ("expect", "upload", "ping")
InvokePlain(m, id, id2, info) ==
    /\ CanCall
    /\ m.shape \in {"expect", "upload", "ping"}
    /\ Enter(Call(m, id, id2, info, NoneArg))
    /\ Begin(Proceed(DataOfInfo(info)))
    /\ UNCHANGED <<callerMap, params>>

InvokeVerif(m, id, info) ==
    /\ CanCall
    /\ m.shape = "verif"
    /\ Enter(Call(m, id, "", info, NoneArg))
    /\ Begin(BeforeVerif(id, info))
    /\ UNCHANGED <<callerMap, params>>

InvokeUpdateRemoteAccess(m, id, info) ==
    /\ CanCall
    /\ m.shape = "update_remote_access"
    /\ Enter(Call(m, id, "", info, NoneArg))
    /\ Begin(BeforeUpdateRemoteAccess(id, info))
    /\ UNCHANGED <<callerMap, params>>

InvokeCreateRemoteAccess(m, info) ==
    /\ CanCall
    /\ m.shape = "create_remote_access"
    /\ Enter(Call(m, "", "", info, NoneArg))
    /\ Begin(BeforeCreateRemoteAccess(info))
    /\ UNCHANGED <<callerMap, params>>

\* servers(params) and the other paginated methods: _get_pages up to its
\* first request (cbw_api.py:75-84)
InvokePages(m, arg) ==
    /\ CanCall
    /\ m.shape = "pages"
    /\ Enter(Call(m, "", "", NoInfo, arg))
    /\ params' = DefaultParams(arg)
    /\ callerMap' = IF arg.none THEN callerMap ELSE DefaultParams(arg)
    /\ pc' = EntryPoint(DefaultParams(arg))
    /\ result' = NoResult
    /\ exc' = ""
    /\ UNCHANGED exit_status

\* The call returned or raised: the caller takes the outcome and goes on.
\* Of the call its own dict is left, with what _get_pages wrote into it.
CallerContinues ==
    /\ pc \in {"done", "raised"}
    /\ ncalls < MaxCalls
    /\ pc' = "idle"
    /\ call' = NoCall
    /\ params' = EmptyDict
    /\ response' = NoneResponse
    /\ response_list' = <<>>
    /\ result' = NoResult
    /\ exc' = ""
    /\ requests' = <<>>
    /\ pages' = NoPages
    /\ fault' = ""
    /\ UNCHANGED <<api_url, callerMap, ncalls, exit_status>>

(* ----------------------------- the requests ---------------------------- *)
\* body_params of the request of a non-paginated method
BodyOf(c) ==
    IF ~c.m.body THEN NoData
    ELSE IF c.m.shape = "create_remote_access" THEN BeforeCreateRemoteAccess(c.info).data
    ELSE DataOfInfo(c.info)

After(c, r) ==
    IF c.m.shape = "ping" THEN AfterPing(r)
    ELSE IF c.m.shape = "expect" THEN AfterExpect(c.m, r)
    ELSE IF c.m.shape = "upload" THEN AfterUpload(r)
    ELSE IF c.m.shape = "verif" THEN AfterVerif(r)
    ELSE IF c.m.shape = "update_remote_access" THEN AfterUpdateRemoteAccess(r)
    ELSE AfterCreateRemoteAccess(c.info, r)

\* the request of a non-paginated method and the rest of the method
Request(ev) ==
    /\ pc = "request"
    /\ LET q == _request(api_url, call.m.verb, Payloads(call.m, call.id, call.id2),
                         BodyOf(call), ev)
       IN  /\ Transport(q, ev)
           /\ Finish(IF q.kind = "return" THEN After(call, q.response) ELSE Escaped(q))
    /\ UNCHANGED <<api_url, callerMap, ncalls, call, params, response_list, pages>>

\* the page the server serves for the `page` parameter of a request
TokenOf(page) == IF page = NoKey THEN 1 ELSE page
\* the server's answers to a request for that page: a page it has served
\* is served again as it was
Answers(page) ==
    IF pages[TokenOf(page)].isNone THEN PageResponses(TokenOf(page))
    ELSE {pages[TokenOf(page)]}
Serve(q, ev) ==
    pages' = IF q.sent /\ ev.kind = "response"
             THEN [pages EXCEPT ![TokenOf(params.page)] = ev.response] ELSE pages

\* _get_pages with 'page' in params: the one request (cbw_api.py:85-89)
RequestPage(ev) ==
    /\ pc = "page"
    /\ LET q == _request(api_url, call.m.verb, call.m.path, DataOfParams(params), ev)
       IN  /\ Transport(q, ev)
           /\ Serve(q, ev)
           /\ Finish(IF q.kind = "return" THEN AfterPage(q.response) ELSE Escaped(q))
    /\ UNCHANGED <<api_url, callerMap, ncalls, call, params, response_list>>

\* the pager goes on to the next page or ends
Loop(out) ==
    IF out.kind = "continue"
    THEN /\ pc' = "next"
         /\ response_list' = out.value.items
         /\ params' = [params EXCEPT !.page = out.page]
         /\ callerMap' = IF call.arg.none THEN callerMap ELSE [params EXCEPT !.page = out.page]
         /\ UNCHANGED <<result, exc, exit_status>>
    ELSE /\ Finish(out)
         /\ UNCHANGED <<response_list, params, callerMap>>

\* _get_pages: the first request (cbw_api.py:91-101)
RequestFirst(ev) ==
    /\ pc = "first"
    /\ LET q == _request(api_url, call.m.verb, call.m.path, DataOfParams(params), ev)
       IN  /\ Transport(q, ev)
           /\ Serve(q, ev)
           /\ Loop(IF q.kind = "return" THEN AfterFirst(q.response) ELSE Leave(Escaped(q)))
    /\ UNCHANGED <<api_url, ncalls, call>>

\* _get_pages: a request of the while loop (cbw_api.py:102-104)
RequestNext(ev) ==
    /\ pc = "next"
    /\ Len(requests) < MaxRequests
    /\ LET q == _request(api_url, call.m.verb, call.m.path, DataOfParams(params), ev)
       IN  /\ Transport(q, ev)
           /\ Serve(q, ev)
           /\ Loop(IF q.kind = "return" THEN AfterNext(response_list, q.response)
                   ELSE Leave(Escaped(q)))
    /\ UNCHANGED <<api_url, ncalls, call>>

Next ==
    \/ /\ CanCall
       /\ \E m \in OfShape("expect") \cup OfShape("upload") \cup OfShape("ping") :
          \E id \in IF TakesId(m) THEN Ids ELSE {""} :
          \E id2 \in IF TakesId2(m) THEN Ids ELSE {""} :
          \E info \in IF m.body THEN Infos ELSE {NoInfo} :
             InvokePlain(m, id, id2, info)
    \/ /\ CanCall
       /\ \E m \in OfShape("verif"), id \in Ids :
          \E info \in IF m.body THEN Infos ELSE {NoInfo} :
             InvokeVerif(m, id, info)
    \/ /\ CanCall
       /\ \E m \in OfShape("update_remote_access"), id \in Ids, info \in Infos :
             InvokeUpdateRemoteAccess(m, id, info)
    \/ /\ CanCall
       /\ \E m \in OfShape("create_remote_access"), info \in Infos :
             InvokeCreateRemoteAccess(m, info)
    \/ /\ CanCall
       /\ \E m \in OfShape("pages") :
          \E arg \in {NoneArg} \cup {DictArg(d) : d \in CallerDicts \cup {callerMap}} :
             InvokePages(m, arg)
    \/ CallerContinues
    \/ /\ pc = "request"
       /\ \E ev \in TransportEvents(api_url, ItemResponses) : Request(ev)
    \/ /\ pc = "page"
       /\ \E ev \in TransportEvents(api_url, Answers(params.page)) : RequestPage(ev)
    \/ /\ pc = "first"
       /\ \E ev \in TransportEvents(api_url, Answers(params.page)) : RequestFirst(ev)
    \/ /\ pc = "next"
       /\ \E ev \in TransportEvents(api_url, Answers(params.page)) : RequestNext(ev)

Spec == Init /\ [][Next]_vars

(* ----------------------- what the claims speak of ----------------------- *)
\* the call has ended: it returned, raised, or ended the process
Terminal == pc \in {"done", "raised", "exited"}
\* the failure sentinels of the public methods
FailureSentinels == {RNone, RFalse}
\* a paginated method called without / with a 'page' parameter
Paged == call.m.shape = "pages"
CursorCall == Paged /\ (call.arg.none \/ call.arg.dict.page = NoKey)
PageCall == Paged /\ ~call.arg.none /\ call.arg.dict.page # NoKey
\* the page tokens the server has answered in this call
Served == {t \in Tokens : ~pages[t].isNone}

RECURSIVE ChainFrom(_, _)
\* The pages the server serves from page t on when its "next" links are
\* followed, as far as it has served them (at most n of them).
ChainFrom(t, n) ==
    IF n = 0 \/ pages[t].isNone THEN <<>>
    ELSE IF pages[t].links.next = NoKey THEN <<t>>
    ELSE <<t>> \o ChainFrom(pages[t].links.next, n - 1)
\* the chain of the collection: a request without 'page' is served page 1
Chain == ChainFrom(1, MaxRequests)
\* the chain is finite and served to its end
ChainEnds == Chain # <<>> /\ pages[Chain[Len(Chain)]].links.next = NoKey

RECURSIVE ChainItems(_)
\* P1 ++ P2 ++ ... ++ Pn
ChainItems(chain) ==
    IF chain = <<>> THEN <<>>
    ELSE pages[Head(chain)].text.items \o ChainItems(Tail(chain))

RECURSIVE ChainCount(_)
\* the sum of the per-page item counts
ChainCount(chain) ==
    IF chain = <<>> THEN 0
    ELSE Len(pages[Head(chain)].text.items) + ChainCount(Tail(chain))

\* every page of the chain was answered 200 with a JSON array
ChainAllOk ==
    \A i \in DOMAIN Chain :
        pages[Chain[i]].status_code = 200 /\ pages[Chain[i]].text.kind = "array"

C2_AbortOnFailedPage ==
    (Paged /\ \E t \in Served : pages[t].status_code # 200)
        => (pc = "done" /\ result = RNone)

\* The status codes a method takes as its success: the code it compares
\* status_code with (200, 201 for the creates, 204 for the bulk upload),
\* 200..299 where it calls verif_response; the same range is taken for
\* update_remote_access, which compares with nothing.
ExpectedCodes(m) ==
    IF m.shape \in {"expect", "pages", "ping", "upload"} THEN {m.expect}
    ELSE 200..299
\* the methods that read the body of their response as JSON
ParsesBody(m) ==
    m.shape \in {"expect", "pages", "update_remote_access", "create_remote_access"}

\* C3: a response whose status code is outside the expected codes of the
\* method never yields a success: the method returns its failure sentinel
\* and the process goes on (stated for the methods that are not paginated).
C3_UnexpectedStatusFails ==
    (~Paged /\ Terminal /\ ~response.isNone
        /\ response.status_code \notin ExpectedCodes(call.m))
        => (pc = "done" /\ result \in FailureSentinels)

\* C4: when requests.request fails with a connectivity error on a request
\* of a call, no exception leaves the call: it returns a failure sentinel.
C4_ConnectivityFailureIsSentinel ==
    (fault \in ConnectivityErrors) => (pc = "done" /\ result \in FailureSentinels)

\* C5: a response with an expected status whose body is not well-formed
\* JSON yields a failure: the call returns, with a failure sentinel.
C5_DecodeFailureIsSentinel ==
    (Terminal /\ ParsesBody(call.m) /\ ~response.isNone
        /\ response.status_code \in ExpectedCodes(call.m)
        /\ response.text.kind \in {"malformed", "empty"})
        => (pc = "done" /\ result \in FailureSentinels)

\* C6: a collection method called with a 'page' entry in its parameters
\* makes exactly one request, for that page, returns the page as
\* received, and never follows a "next" relation of the response.
C6_ExplicitPageOnce ==
    PageCall
        => /\ pc \notin {"first", "next"}
           /\ Len(requests) <= 1
           /\ Terminal => /\ Len(requests) = 1
                          /\ requests[1].data.page = call.arg.dict.page
           /\ (pc = "done" /\ result # RNone)
                 => result = RList(pages[call.arg.dict.page].text.items)

\* an explicit page with a "next" link was returned after one request
C6_Witness ==
    /\ PageCall
    /\ pc = "done"
    /\ response.links.next # NoKey
    /\ Len(requests) = 1
    /\ result.tag = "list" /\ result.items # <<>>

\* C7: every DELETE method called with no identifier (empty or absent)
\* makes no request and returns a failure sentinel at once.
C7_DeleteWithoutIdShortCircuits ==
    (call.m.verb = "DELETE" /\ ~TruthyId(call.id) /\ Terminal)
        => (pc = "done" /\ result \in FailureSentinels /\ requests = <<>>)

\* C8: a paginated fetch ends as soon as a response without a "next"
\* relation is received, after exactly one request per page of the chain,
\* and its result holds as many items as those pages; as long as every
\* response carries "next" the fetch does not return a list.
C8_PagerTermination ==
    CursorCall
        => /\ (\E t \in Served : pages[t].links.next = NoKey) => pc \in {"done", "raised"}
           /\ (pc = "done" /\ result.tag = "list")
                 => /\ ChainEnds
                    /\ Len(requests) = Len(Chain)
                    /\ Len(result.items) = ChainCount(Chain)
           /\ (\A t \in Served : pages[t].links.next # NoKey)
                 => ~(pc = "done" /\ result.tag = "list")

\* two pages were fetched with two requests
C8_Witness ==
    /\ CursorCall
    /\ pc = "done"
    /\ result.tag = "list"
    /\ Len(Chain) = 2
    /\ Len(requests) = 2
    /\ Len(result.items) = 2

\* C9: with a base url that has no scheme, the first request a method
\* attempts ends the process with a non-zero exit status: the method
\* returns nothing, and nothing happens afterwards.
C9_StateOfExit ==
    /\ api_url.scheme = ""
          => /\ Len(requests) <= 1
             /\ requests # <<>> => pc = "exited"
    /\ pc = "exited"
          => /\ api_url.scheme = ""
             /\ exit_status # 0
             /\ result = NoResult
             /\ Len(requests) = 1
\* C9, as a property of behaviours: the state of the exit holds throughout
\* and no step is taken once the process has exited.
C9_ConfigurationFailureExits == [](C9_StateOfExit) /\ [][pc # "exited"]_vars

\* the process ended at the request of a method
C9_Witness ==
    /\ pc = "exited"
    /\ exit_status = 255
    /\ Len(requests) = 1
    /\ call.m.name = "server"

\* the guarded methods and the emptiness of their guard argument
GuardEmpty(c) ==
    \/ c.m.name \in {"update_server", "update_compliance_rule"} /\ ~TruthyId(c.id)
    \/ c.m.name = "update_remote_access" /\ (~TruthyId(c.id) \/ ~Truthy(c.info))
    \/ c.m.name = "create_remote_access" /\ ~Truthy(c.info)
\* every request of the call was answered, with well-formed JSON
Answered ==
    /\ fault = ""
    /\ requests # <<>> => (~response.isNone /\ response.text.kind \in {"array", "object"})

\* C10: whatever the arguments, a call whose requests are all answered
\* with well-formed JSON ends by returning a value, and a guarded method
\* called with an empty guard argument returns the failure sentinel.
C10_AlwaysAnOutcome ==
    /\ (Terminal /\ Answered) => (pc = "done" /\ result # NoResult)
    /\ (Terminal /\ GuardEmpty(call)) => (pc = "done" /\ result \in FailureSentinels)

\* C11: upload_importer_results answered 204 returns the response itself,
\* whatever its body (an empty one too): the body is not parsed, so no
\* decode failure can come of it; answered any other status, 200 too, it
\* returns the failure sentinel.
C11_UploadAcknowledged ==
    (call.m.shape = "upload" /\ Terminal /\ ~response.isNone)
        => /\ pc = "done"
           /\ response.status_code = 204 => result = RResponse(response)
           /\ response.status_code # 204 => result = RNone

\* an upload was acknowledged with 204 and an empty body
C11_Witness ==
    /\ call.m.name = "upload_importer_results"
    /\ pc = "done"
    /\ response.status_code = 204
    /\ response.text = EmptyText
    /\ result.tag = "response"

\* the page size the caller asked for, 100 when it asked for none
PageSize(arg) ==
    IF ~arg.none /\ arg.dict.per_page # NoKey THEN arg.dict.per_page ELSE DefaultPerPage

\* C12: every request of the pager, with an explicit page or following
\* the cursor, on every page of the chain, carries the caller's
\* 'per_page' when the caller gave one and 100 otherwise.
C12_PageSize ==
    Paged => \A i \in DOMAIN requests : requests[i].data.per_page = PageSize(call.arg)

\* two pages were requested with the caller's page size
C12_Witness ==
    /\ CursorCall
    /\ ~call.arg.none /\ call.arg.dict.per_page = CallerPerPage
    /\ Len(requests) = 2
    /\ \A i \in DOMAIN requests : requests[i].data.per_page = CallerPerPage

\* the response received immediately before the i-th request of a call
\* following the cursor: the server's page for the request before it
ResponseBefore(i) == pages[TokenOf(requests[i - 1].data.page)]

\* C13: following the cursor, the first request carries no 'page' and
\* every later one carries the page token of the "next" relation of the
\* response received immediately before it, with the verb, the route and
\* the other parameters of the first request.
C13_FollowsNextToken ==
    CursorCall
        => \A i \in DOMAIN requests :
              /\ i = 1 => requests[i].data.page = NoKey
              /\ i > 1 => /\ ResponseBefore(i).links.next # NoKey
                          /\ requests[i].data.page = ResponseBefore(i).links.next
                          /\ requests[i].verb = requests[1].verb
                          /\ requests[i].route = requests[1].route
                          /\ requests[i].data.per_page = requests[1].data.per_page
                          /\ requests[i].data.kind = requests[1].data.kind

\* a second follow-up request was made, for a token other than the first
C13_Witness ==
    /\ CursorCall
    /\ Len(requests) = 3
    /\ requests[2].data.page = 2
    /\ requests[3].data.page = 1

\* C14: a collection operation leaves the mapping its caller passed as it
\* was passed: no 'per_page' and no 'page' is added to it or overwritten
\* in it, so that a second call with the same mapping starts as the
\* first one did.
C14_CallerMappingUnchanged ==
    (Paged /\ ~call.arg.none) => callerMap = call.arg.dict

====
